---- MODULE Spec2Model ----
(***************************************************************************)
(* Model of the clowdy invocation subsystem: the warm container pool       *)
(* (AssignmentService), the placement of new containers                    *)
(* (PlacementService), the execution of user code in a container           *)
(* (worker_service.execute) and the orchestration of one invocation        *)
(* (InvokeService).                                                        *)
(*                                                                         *)
(* Every pool operation runs its critical section under                    *)
(* AssignmentService._lock, so each is one atomic action.  Engine calls    *)
(* that follow a critical section act on containers that the thread has    *)
(* already taken out of the pool and that no other thread can reach, so    *)
(* they are part of the same action.  An invocation is cut at the points   *)
(* where it waits for the engine: create, put_archive, exec_run.           *)
(*                                                                         *)
(* A container counts as destroyed once container.remove(force=True) has   *)
(* been called on it: every call site swallows the exception of a failed   *)
(* remove, so the call is all the program knows.                           *)
(***************************************************************************)
EXTENDS Integers, Sequences, FiniteSets, TLC

\* ---------------------------------------------------------------- bounds
NumInvocations == 2
MaxHandles == 2
MaxPoolSize == 2
MaxIdleTimeout == 1
MaxTicks == 2
MaxShutdowns == 2
MaxPathLen == 3
MaxRoutes == 2
MaxRequests == 1
MaxManifestLen == 4
NumCodes == 2
MaxRuns == 2
NumFunctions == 1
MaxVersions == 3
NumUpdaters == 2
NumBuilders == 2
MaxReapErrors == 1

\* ------------------------------------------------------ program constants
TIMEOUT_SECONDS == 30
DEFAULT_IMAGE == "clowdy-python-runtime"
CustomImage == "clowdy-project-1:0a1b2c3d"
None == 0

Threads == 1 .. NumInvocations
Handles == 1 .. MaxHandles
Images == {DEFAULT_IMAGE, CustomImage}
Keys == Images \X BOOLEAN

\* The (image_name, network_enabled) pairs invoke is called with: functions
\* on the default runtime without and with network, and a function of a
\* project with a custom image.
Requests == {<<"", FALSE>>, <<"", TRUE>>, <<CustomImage, FALSE>>}

VARIABLES
    max_pool_size,   \* AssignmentService.max_pool_size
    idle_timeout,    \* AssignmentService.idle_timeout
    pool,            \* AssignmentService._pool: key -> sequence of PoolEntry
    pool_keys,       \* the keys of _pool in dict (insertion) order
    now,             \* time.time()
    ticks,           \* number of clock advances so far
    created,         \* number of containers the engine has created
    handle_key,      \* handle -> (image, network_enabled) it was created with
    orphans,         \* containers created whose start raised: create
                     \* returned no handle for them
    removes,         \* handle -> number of container.remove calls
    shutdowns,       \* number of shutdown() calls that have returned
    pc,              \* thread -> position in _do_invoke
    req,             \* thread -> (image, network_enabled) of its invocation
    container,       \* thread -> the local variable container
    cold_start,      \* thread -> the local variable cold_start
    overdue,         \* history: thread -> its exec_run has lasted longer than
                     \* TIMEOUT_SECONDS
    cancelled,       \* thread -> the awaiting caller was cancelled
    result,          \* the dict returned by the invocation that ended last,
                     \* with the thread that ran it
    pool_before,     \* history: thread -> total count when it was started
    idle_log,        \* history: the (handle, key) pairs released and not
                     \* taken out of the pool since, in order of release
    ever_pooled,     \* history: handles that have been in the pool
    lock,            \* AssignmentService._lock: the operation holding it
    engine_calls,    \* the pool operations inside a container.remove call
    ops,             \* pool operation -> its position, the container it
                     \* releases and the containers it has yet to remove
    routes,          \* the Route rows of the project, in store order
    gw,              \* the gateway request being handled: the locals of
                     \* _handle_gateway and its response
    invocation_log,  \* the Invocation rows committed
    requirements,    \* the requirements.txt text handed to the image builder
    requirements_hash,  \* the hash computed for it
    sandbox,         \* the container handed to the worker: the function.py
                     \* in /app and the number of runs of the bootstrap
    execution,       \* the call of worker_service.execute made last: its
                     \* arguments, what the engine did and what came back
    functions,       \* the functions table: id -> active_version
    function_versions,  \* the function_versions table: (function_id,
                     \* version) -> code
    updating,        \* the update_function requests between their read of
                     \* the function and their commit
    response,        \* the response of the functions router sent last
    images,          \* the image tags of the engine: (project id, hash)
    project,         \* the project row: requirements_txt, requirements_hash
    builds,          \* the update_requirements requests: their position
                     \* and the locals of build_project_image
    reaper           \* the run_reaper task: whether it is in its loop, and
                     \* the number of reap() calls that raised

lockVars == <<lock, engine_calls, ops>>
gatewayVars == <<routes, gw, invocation_log>>
manifestVars == <<requirements, requirements_hash>>
workerVars == <<sandbox, execution>>
versionVars == <<functions, function_versions, updating, response>>
imageVars == <<images, project, builds>>
reaperVars == <<reaper>>
restVars == <<workerVars, versionVars, imageVars, reaperVars>>
otherVars == <<lockVars, gatewayVars, manifestVars, restVars>>

serviceVars == <<max_pool_size, idle_timeout, pool, pool_keys, now, ticks,
                 created, handle_key, orphans, removes, shutdowns, pc, req,
                 container, cold_start, overdue, cancelled, result,
                 pool_before, idle_log, ever_pooled>>

vars == <<serviceVars, otherVars>>

poolVars == <<pool, pool_keys, idle_log, ever_pooled>>
threadVars == <<pc, req, container, cold_start, overdue, cancelled, result,
                pool_before>>
engineVars == <<created, handle_key, orphans>>
configVars == <<max_pool_size, idle_timeout>>

\* ------------------------------------------------------- sequence helpers
RECURSIVE SumLen(_, _)
SumLen(p, ks) ==
    IF ks = <<>> THEN 0 ELSE Len(p[Head(ks)]) + SumLen(p, Tail(ks))

RemoveAt(s, idx) == SubSeq(s, 1, idx - 1) \o SubSeq(s, idx + 1, Len(s))

RECURSIVE Without(_, _)
Without(s, x) ==
    IF s = <<>> THEN <<>>
    ELSE IF Head(s) = x THEN Without(Tail(s), x)
    ELSE <<Head(s)>> \o Without(Tail(s), x)

SeqRange(s) == {s[n] : n \in DOMAIN s}

\* The log without the pairs of the handles hs.
Forget(log, hs) == SelectSeq(log, LAMBDA e : e[1] \notin hs)

\* ------------------------------------------------------------ the pool
PoolEntry(c, t) == [container |-> c, idle_since |-> t]

\* _total_count: sum of len(entries) over the dict's values.
TotalCount(p, ks) == SumLen(p, ks)

PooledHandles(p) == UNION {{p[k][n].container : n \in DOMAIN p[k]} : k \in Keys}

\* The (key, idx, idle_since) triples in the order _evict_lru scans them.
RECURSIVE Scan(_, _)
Scan(p, ks) ==
    IF ks = <<>> THEN <<>>
    ELSE [n \in DOMAIN p[Head(ks)] |->
             [key |-> Head(ks), idx |-> n, t |-> p[Head(ks)][n].idle_since]]
         \o Scan(p, Tail(ks))

\* The first scanned entry whose idle_since is strictly below every earlier
\* one and not above any later one: the result of the "<" scan.
Oldest(p, ks) ==
    LET s == Scan(p, ks)
        m == CHOOSE n \in DOMAIN s :
                 /\ \A j \in DOMAIN s : s[n].t <= s[j].t
                 /\ \A j \in 1 .. n - 1 : s[j].t > s[n].t
    IN  s[m]


\* acquire returning the last entry without popping it.
acquire_peek(p, key) ==
    IF p[key] = <<>>
    THEN [container |-> None, pool |-> p]
    ELSE [container |-> p[key][Len(p[key])].container, pool |-> p]

\* acquire popping the first entry, entries.pop(0), instead of the last.
acquire_fifo(p, key) ==
    IF p[key] = <<>>
    THEN [container |-> None, pool |-> p]
    ELSE [container |-> p[key][1].container,
          pool |-> [p EXCEPT ![key] = Tail(p[key])]]

\* acquire taking a container of whatever key has one.
acquire_any_key(p, key) ==
    IF \A k \in Keys : p[k] = <<>>
    THEN [container |-> None, pool |-> p]
    ELSE LET k == CHOOSE k \in Keys : p[k] /= <<>>
         IN  [container |-> p[k][Len(p[k])].container,
              pool |-> [p EXCEPT ![k] = SubSeq(p[k], 1, Len(p[k]) - 1)]]

\* acquire, lines 59-69: pop the last entry of the key's list, if any.  The
\* key stays in the dict when its list becomes empty.
acquire(p, key) ==
    IF p[key] = <<>>
    THEN [container |-> None, pool |-> p]
    ELSE [container |-> p[key][Len(p[key])].container,
          pool |-> [p EXCEPT ![key] = SubSeq(p[key], 1, Len(p[key]) - 1)]]

\* _evict_lru: remove the oldest entry, delete its key when the list becomes
\* empty, and remove the container.  Nothing happens on an empty pool.
evict_lru(p, ks) ==
    IF TotalCount(p, ks) = 0
    THEN [pool |-> p, keys |-> ks, evicted |-> None]
    ELSE LET o == Oldest(p, ks)
             rest == RemoveAt(p[o.key], o.idx)
         IN  [pool |-> [p EXCEPT ![o.key] = rest],
              keys |-> IF rest = <<>> THEN Without(ks, o.key) ELSE ks,
              evicted |-> p[o.key][o.idx].container]

\* release, lines 78-84: make room when the pool is full, then append the
\* entry under its key (setdefault adds an absent key at the end).
release(p, ks, c, key, t, max) ==
    LET e == IF TotalCount(p, ks) >= max
             THEN evict_lru(p, ks)
             ELSE [pool |-> p, keys |-> ks, evicted |-> None]
    IN  [pool |-> [e.pool EXCEPT ![key] = Append(@, PoolEntry(c, t))],
         keys |-> IF key \in SeqRange(e.keys) THEN e.keys
                  ELSE Append(e.keys, key),
         evicted |-> e.evicted]

\* An entry counted as expired from the moment its idle time reaches the
\* timeout.
Expired_at_timeout(e, t, timeout) == t - e.idle_since >= timeout

Expired(e, t, timeout) == t - e.idle_since > timeout

\* reap, lines 125-139: the entries idle for longer than the timeout leave
\* the pool, and the keys left empty leave the dict.
reap(p, ks, t, timeout) ==
    LET alive(k) == SelectSeq(p[k], LAMBDA e : ~Expired(e, t, timeout))
    IN  [pool |-> [k \in Keys |-> alive(k)],
         keys |-> SelectSeq(ks, LAMBDA k : alive(k) /= <<>>),
         to_remove |-> UNION {{p[k][n].container :
                                  n \in {m \in DOMAIN p[k] :
                                             Expired(p[k][m], t, timeout)}} :
                              k \in Keys}]

EmptyPool == [k \in Keys |-> <<>>]

\* ------------------------------------------------------------ the worker
\* What exec_run hands back: the exit code of the bootstrap and its stdout,
\* by the shape of the text.
StdoutShapes == {"empty", "text", "json_object", "json_object_with_error",
                 "json_not_object"}

IsJson(out) == out \in {"json_object", "json_object_with_error", "json_not_object"}

\* execute, lines 80-97: the parse of stdout.  error_data.get raises when
\* the parsed value is not a dict; that exception is no JSONDecodeError and
\* leaves execute.
WorkerParse(exit_code, out) ==
    IF exit_code /= 0
    THEN LET error_msg == IF out = "empty" THEN "Function exited with an error"
                          ELSE "stdout"
         IN  IF out = "empty" \/ ~IsJson(out)
             THEN [raised |-> FALSE, success |-> FALSE, output |-> error_msg]
             ELSE IF out = "json_not_object"
             THEN [raised |-> TRUE, success |-> FALSE, output |-> "AttributeError"]
             ELSE IF out = "json_object_with_error"
             THEN [raised |-> FALSE, success |-> FALSE, output |-> "error field"]
             ELSE [raised |-> FALSE, success |-> FALSE, output |-> error_msg]
    ELSE [raised |-> FALSE, success |-> TRUE,
          output |-> IF IsJson(out) THEN "parsed stdout" ELSE "stdout"]

\* An engine call of the worker (put_archive, exec_run) that raises.
EngineRaised == [raised |-> TRUE, success |-> FALSE, output |-> "APIError"]

\* The responses of exec_run the invocation model draws from: a success, a
\* clean user error, an output whose parse raises, and an engine failure.
ExecResponses ==
    {WorkerParse(0, "json_object"), WorkerParse(1, "json_object_with_error"),
     WorkerParse(1, "json_not_object"), EngineRaised}

\* --------------------------------------------------------- the orchestrator
\* _invoke_sync, line 86: image = image_name or DEFAULT_IMAGE.
ImageOf(image_name) == IF image_name = "" THEN DEFAULT_IMAGE ELSE image_name

NoResult == [thread |-> 0, success |-> FALSE, output |-> "none", cold_start |-> FALSE]
ExecutionError == "Execution error"
CreateOutcomes == {"ok", "ConnectionError", "ImageNotFound", "start_failed"}

\* _invoke_sync, lines 94-126: the result built for an exception of create.
CreateFailure(i, outcome) ==
    [thread |-> i, success |-> FALSE,
     output |-> CASE outcome = "ConnectionError" -> "Could not connect to Docker"
                  [] outcome = "ImageNotFound" -> "Docker image not found"
                  [] OTHER -> "Unexpected error",
     cold_start |-> TRUE]

\* _do_invoke releasing the container whatever the worker did.
Disposal_release(raised) == "release"

\* _do_invoke destroying the container whatever the worker did.
Disposal_destroy(raised) == "destroy"

\* _do_invoke, lines 151-168: a worker that raised has its container
\* destroyed, a worker that returned has it released.
Disposal(raised) == IF raised THEN "destroy" ELSE "release"

\* A cancellation that reaches the work itself and abandons it.
AfterCancel_abort(position) == "idle"

\* invoke, lines 62-66: the work runs in a thread of asyncio.to_thread; a
\* cancelled caller stops waiting and the thread keeps its position.
AfterCancel(position) == position

InFlight(i) == pc[i] /= "idle"
Owners(h) == {i \in Threads : InFlight(i) /\ container[i] = h}

TypeOK ==
    /\ max_pool_size \in 0 .. MaxPoolSize
    /\ idle_timeout \in 1 .. MaxIdleTimeout
    /\ \A k \in Keys : \A n \in DOMAIN pool[k] :
           pool[k][n].container \in Handles /\ pool[k][n].idle_since \in 0 .. now
    /\ SeqRange(pool_keys) \subseteq Keys
    /\ \A k \in Keys : pool[k] /= <<>> => k \in SeqRange(pool_keys)
    /\ created \in 0 .. MaxHandles
    /\ orphans \subseteq 1 .. created
    /\ shutdowns \in 0 .. MaxShutdowns
    /\ ticks \in 0 .. MaxTicks
    /\ \A i \in Threads :
           /\ pc[i] \in {"idle", "exec"}
           /\ req[i] \in Keys
           /\ container[i] \in Handles \cup {None}

\* The pool operations that run their critical section step by step.
Ops == {"release", "reap", "shutdown"}
IdleOps == [o \in Ops |-> [pc |-> "idle", container |-> None, pending |-> {}]]

\* No gateway request is being handled.
NoRequest ==
    [pc |-> "idle", n |-> 0, slug_known |-> FALSE, fn_active |-> FALSE,
     version_found |-> FALSE, terminates |-> FALSE, method |-> "GET",
     path |-> <<>>, request_path |-> <<>>, matched_path |-> <<>>, route |-> 0,
     params |-> {}, event_path |-> <<>>, invoked |-> FALSE,
     success |-> FALSE, output |-> "none", status |-> 0, detail |-> "none"]

\* The lock is free and no pool operation is under way.
InitLock ==
    /\ lock = "free"
    /\ engine_calls = {}
    /\ ops = IdleOps

\* A project without routes, no request, an empty invocation table.
InitGateway ==
    /\ routes = <<>>
    /\ gw = NoRequest
    /\ invocation_log = <<>>

\* No requirements.txt has been handed in.
InitManifest ==
    /\ requirements = <<>>
    /\ requirements_hash = <<>>

\* A container fresh from the image, and no call of execute yet.
NoCode == 0
FreshSandbox == [code |-> NoCode, runs |-> 0]
NoExecution ==
    [code |-> NoCode, put |-> "none", exec_run |-> FALSE, exec_raised |-> FALSE,
     exit_code |-> 0, stdout |-> "empty", before |-> FreshSandbox,
     raised |-> FALSE, success |-> FALSE, output |-> "none"]

InitWorker ==
    /\ sandbox = FreshSandbox
    /\ execution = NoExecution

\* Empty tables, no request of the functions router.
NoFunction == 0
NoVersion == 0
FunctionIds == 1 .. NumFunctions
Versions == 1 .. MaxVersions
Updaters == 1 .. NumUpdaters
NoUpdate == [pc |-> "idle", fn |-> NoFunction, new_code |-> NoCode,
             active_version |-> NoVersion]
NoResponse == [op |-> "none", fn |-> NoFunction, status |-> 0,
               new_code |-> NoCode, version |-> NoVersion, used_before |-> FALSE,
               active_version |-> NoVersion, code |-> NoCode]

InitVersions ==
    /\ functions = [f \in FunctionIds |-> NoVersion]
    /\ function_versions = [f \in FunctionIds |-> [v \in Versions |-> NoCode]]
    /\ updating = [u \in Updaters |-> NoUpdate]
    /\ response = NoResponse

\* The project under update and another project of the same engine.
ProjectId == "p1"
OtherProjectId == "p2"
Builders == 1 .. NumBuilders
NoHash == <<"none">>
NoBuild ==
    [pc |-> "idle", requirements_txt |-> <<>>, req_hash |-> NoHash,
     cached |-> FALSE, submitted |-> FALSE, listed |-> FALSE,
     listing |-> {}, to_remove |-> {}, attempted |-> {}, refused |-> {},
     before |-> {},
     ok |-> FALSE, hash |-> NoHash]

\* A project without requirements; the engine holds an image of the other
\* project.
InitImages ==
    /\ images = {<<OtherProjectId, <<"r">> >>}
    /\ project = [requirements_txt |-> <<>>, requirements_hash |-> NoHash]
    /\ builds = [b \in Builders |-> NoBuild]

\* lifespan, line 72: the reaper task is started.
InitReaper == reaper = [task |-> "running", errors |-> 0]

\* Nothing has happened outside the pool, the gateway and the image builder.
InitRest == InitWorker /\ InitVersions /\ InitImages /\ InitReaper

\* lifespan: a fresh AssignmentService, no invocation under way.
InitService ==
    /\ max_pool_size \in 0 .. MaxPoolSize
    /\ idle_timeout \in 1 .. MaxIdleTimeout
    /\ pool = EmptyPool
    /\ pool_keys = <<>>
    /\ now = 0
    /\ ticks = 0
    /\ created = 0
    /\ handle_key = [h \in Handles |-> <<DEFAULT_IMAGE, FALSE>>]
    /\ orphans = {}
    /\ removes = [h \in Handles |-> 0]
    /\ shutdowns = 0
    /\ pc = [i \in Threads |-> "idle"]
    /\ req = [i \in Threads |-> <<DEFAULT_IMAGE, FALSE>>]
    /\ container = [i \in Threads |-> None]
    /\ cold_start = [i \in Threads |-> FALSE]
    /\ overdue = [i \in Threads |-> FALSE]
    /\ cancelled = [i \in Threads |-> FALSE]
    /\ result = NoResult
    /\ pool_before = [i \in Threads |-> 0]
    /\ idle_log = <<>>
    /\ ever_pooled = {}

Init ==
    /\ InitService
    /\ InitLock
    /\ InitGateway
    /\ InitManifest
    /\ InitRest

RemoveCalls(rem, hs) ==
    [h \in Handles |-> IF h \in hs THEN rem[h] + 1 ELSE rem[h]]

\* _do_invoke, lines 151-168, on the pool p: destroy the container c, or
\* release it under its key at time t.  removed holds the containers on
\* which container.remove is called.
Dispose(p, ks, c, key, t, max, raised) ==
    IF Disposal(raised) = "destroy"
    THEN [pool |-> p, keys |-> ks, removed |-> {c}, released |-> FALSE]
    ELSE LET rel == release(p, ks, c, key, t, max)
         IN  [pool |-> rel.pool, keys |-> rel.keys,
              removed |-> {rel.evicted} \ {None}, released |-> TRUE]

\* _do_invoke, lines 160-165 and 170-173: the dict an invocation returns.
Returned(i, r, cold) ==
    IF r.raised
    THEN [thread |-> i, success |-> FALSE, output |-> ExecutionError,
          cold_start |-> cold]
    ELSE [thread |-> i, success |-> r.success, output |-> r.output,
          cold_start |-> cold]

\* invoke -> _invoke_sync -> _do_invoke up to the call of exec_run: acquire
\* decides warm or cold, a cold start creates and starts a container, and
\* the worker copies the code in.  containers.create may raise before a
\* container exists; container.start may raise after it does, and create
\* then returns no handle for the container the engine holds.  A put_archive
\* that raises ends the invocation.
Start(i, image_name, network_enabled, outcome, injected) ==
    /\ pc[i] = "idle"
    /\ shutdowns = 0
    /\ LET key == <<ImageOf(image_name), network_enabled>>
           a == acquire(pool, key)
           warm == a.container /= None
           made == ~warm /\ outcome \in {"ok", "start_failed"}
           c == IF warm THEN a.container
                ELSE IF outcome = "ok" THEN created + 1 ELSE None
           d == Dispose(a.pool, pool_keys, c, key, now, max_pool_size, TRUE)
           log == Forget(idle_log, {a.container})
       IN  /\ warm => outcome = "ok"
           /\ made => created < MaxHandles
           /\ created' = IF made THEN created + 1 ELSE created
           /\ handle_key' = IF made THEN [handle_key EXCEPT ![created + 1] = key]
                            ELSE handle_key
           /\ orphans' = IF made /\ outcome = "start_failed"
                         THEN orphans \cup {created + 1} ELSE orphans
           /\ IF c = None
              THEN /\ injected
                   /\ result' = CreateFailure(i, outcome)
                   /\ UNCHANGED <<pc, req, container, cold_start, pool_before,
                                  poolVars, removes>>
              ELSE IF injected
              THEN /\ pc' = [pc EXCEPT ![i] = "exec"]
                   /\ req' = [req EXCEPT ![i] = key]
                   /\ container' = [container EXCEPT ![i] = c]
                   /\ cold_start' = [cold_start EXCEPT ![i] = ~warm]
                   /\ pool_before' = [pool_before EXCEPT ![i] =
                                          TotalCount(pool, pool_keys)]
                   /\ UNCHANGED result
                   /\ pool' = a.pool
                   /\ idle_log' = log
                   /\ UNCHANGED <<pool_keys, ever_pooled, removes>>
              ELSE /\ result' = Returned(i, EngineRaised, ~warm)
                   /\ pool' = d.pool
                   /\ pool_keys' = d.keys
                   /\ removes' = RemoveCalls(removes, d.removed)
                   /\ idle_log' = IF d.released
                                  THEN Append(Forget(log, d.removed), <<c, key>>)
                                  ELSE log
                   /\ ever_pooled' = IF d.released THEN ever_pooled \cup {c}
                                     ELSE ever_pooled
                   /\ UNCHANGED <<pc, req, container, cold_start, pool_before>>
    /\ cancelled' = [cancelled EXCEPT ![i] = FALSE]
    /\ UNCHANGED <<configVars, now, ticks, shutdowns, overdue, otherVars>>

\* exec_run returns r (it is called without a deadline, so it returns when
\* the bootstrap has exited) or raises; the container is disposed of and
\* the result returned.
ExecReturn(i, r) ==
    /\ pc[i] = "exec"
    /\ LET c == container[i]
           d == Dispose(pool, pool_keys, c, req[i], now, max_pool_size, r.raised)
       IN  /\ pool' = d.pool
           /\ pool_keys' = d.keys
           /\ removes' = RemoveCalls(removes, d.removed)
           /\ idle_log' = IF d.released
                          THEN Append(Forget(idle_log, d.removed), <<c, req[i]>>)
                          ELSE idle_log
           /\ ever_pooled' = IF d.released THEN ever_pooled \cup {c}
                             ELSE ever_pooled
    /\ result' = Returned(i, r, cold_start[i])
    /\ pc' = [pc EXCEPT ![i] = "idle"]
    /\ req' = [req EXCEPT ![i] = <<DEFAULT_IMAGE, FALSE>>]
    /\ container' = [container EXCEPT ![i] = None]
    /\ cold_start' = [cold_start EXCEPT ![i] = FALSE]
    /\ overdue' = [overdue EXCEPT ![i] = FALSE]
    /\ pool_before' = [pool_before EXCEPT ![i] = 0]
    /\ UNCHANGED <<configVars, engineVars, now, ticks, shutdowns, cancelled,
                   otherVars>>

\* The caller awaiting invoke is cancelled (the HTTP client went away).
Cancel(i) ==
    /\ InFlight(i)
    /\ ~cancelled[i]
    /\ cancelled' = [cancelled EXCEPT ![i] = TRUE]
    /\ pc' = [pc EXCEPT ![i] = AfterCancel(pc[i])]
    /\ UNCHANGED <<configVars, engineVars, poolVars, now, ticks, removes,
                   shutdowns, req, container, cold_start, overdue, result,
                   pool_before, otherVars>>

\* run_reaper fires reap() until lifespan cancels the task at shutdown.
Reap ==
    /\ shutdowns = 0
    /\ LET r == reap(pool, pool_keys, now, idle_timeout)
       IN  /\ pool' = r.pool
           /\ pool_keys' = r.keys
           /\ idle_log' = Forget(idle_log, r.to_remove)
           /\ removes' = RemoveCalls(removes, r.to_remove)
    /\ UNCHANGED <<configVars, engineVars, ever_pooled, now, ticks, shutdowns,
                   threadVars, otherVars>>

\* shutdown, lines 167-176: remove every pooled container, clear the dict.
Shutdown ==
    /\ shutdowns < MaxShutdowns
    /\ shutdowns' = shutdowns + 1
    /\ removes' = RemoveCalls(removes, PooledHandles(pool))
    /\ pool' = EmptyPool
    /\ pool_keys' = <<>>
    /\ idle_log' = <<>>
    /\ UNCHANGED <<configVars, engineVars, ever_pooled, now, ticks, threadVars,
                   otherVars>>

\* time.time() advances.
Tick(d) ==
    /\ ticks < MaxTicks
    /\ ticks' = ticks + 1
    /\ now' = now + d
    /\ overdue' = [i \in Threads |->
                      overdue[i] \/ (pc[i] = "exec" /\ d > TIMEOUT_SECONDS)]
    /\ UNCHANGED <<configVars, engineVars, poolVars, removes, shutdowns, pc,
                   req, container, cold_start, cancelled, result, pool_before,
                   otherVars>>

Next ==
    \/ \E i \in Threads, rq \in Requests, outcome \in CreateOutcomes,
          injected \in BOOLEAN : Start(i, rq[1], rq[2], outcome, injected)
    \/ \E i \in Threads, r \in ExecResponses : ExecReturn(i, r)
    \/ Reap
    \/ Shutdown
    \/ Tick(1)

Spec == Init /\ [][Next]_vars

\* Two invocations one after the other on a fresh service whose engine calls
\* do not fail: thread 1 runs the first, thread 2 the second once the first
\* has returned.  No reaper, no shutdown.
SeqStart(i, rq) ==
    /\ IF i = 1 THEN result = NoResult /\ created = 0
       ELSE i = 2 /\ result.thread = 1
    /\ Start(i, rq[1], rq[2], "ok", TRUE)

NextSeq ==
    \/ \E i \in Threads, rq \in Requests : SeqStart(i, rq)
    \/ \E i \in Threads, r \in ExecResponses \ {EngineRaised} : ExecReturn(i, r)
    \/ Tick(1)

SpecSeq == Init /\ [][NextSeq]_vars

\* Invocations that run one at a time, with nothing else touching the pool.
SoloStart(i, rq, outcome, injected) ==
    /\ \A j \in Threads : pc[j] = "idle"
    /\ Start(i, rq[1], rq[2], outcome, injected)

NextSolo ==
    \/ \E i \in Threads, rq \in Requests, outcome \in CreateOutcomes,
          injected \in BOOLEAN : SoloStart(i, rq, outcome, injected)
    \/ \E i \in Threads, r \in ExecResponses : ExecReturn(i, r)
    \/ Tick(1)

SpecSolo == Init /\ [][NextSolo]_vars

\* Concurrent invocations whose callers may be cancelled and whose user code
\* may run past TIMEOUT_SECONDS; the engine creates every container asked for.
NextCaller ==
    \/ \E i \in Threads, rq \in Requests, injected \in BOOLEAN :
          Start(i, rq[1], rq[2], "ok", injected)
    \/ \E i \in Threads, r \in ExecResponses : ExecReturn(i, r)
    \/ \E i \in Threads : Cancel(i)
    \/ Tick(TIMEOUT_SECONDS + 1)

SpecCaller == Init /\ [][NextCaller]_vars

\* ------------------------------------------- the pool operations, by step
\* release, reap and shutdown cut at the lock and at container.remove: an
\* operation is called, takes _lock, runs its critical section, and is
\* inside an engine call from the moment it calls container.remove until
\* the call returns.

\* The thread an operation runs on.  release is called by _do_invoke, which
\* invoke hands to asyncio.to_thread; run_reaper is a coroutine of the event
\* loop and calls reap() itself; lifespan calls shutdown() itself.
RunsOn(o) == IF o = "release" THEN "worker_thread" ELSE "event_loop"

\* release, lines 82-84: the entry goes to the end of its key's list, and a
\* key not in the dict is added at the end.
append_entry(p, ks, c, key, t) ==
    [pool |-> [p EXCEPT ![key] = Append(@, PoolEntry(c, t))],
     keys |-> IF key \in SeqRange(ks) THEN ks ELSE Append(ks, key)]

OpAt(o, position) == ops[o].pc = position
OpGoes(o, position, c, hs) ==
    ops' = [ops EXCEPT ![o] = [pc |-> position, container |-> c, pending |-> hs]]

\* An operation is called.  release is called with a container the caller
\* holds: one the engine created for it.
LkCall(o, key) ==
    /\ OpAt(o, "idle")
    /\ shutdowns < MaxShutdowns
    /\ IF o = "release"
       THEN /\ created < MaxHandles
            /\ created' = created + 1
            /\ handle_key' = [handle_key EXCEPT ![created + 1] = key]
            /\ OpGoes(o, "wait_lock", created + 1, {})
       ELSE /\ key = <<DEFAULT_IMAGE, FALSE>>
            /\ OpGoes(o, "wait_lock", None, {})
            /\ UNCHANGED <<created, handle_key>>
    /\ UNCHANGED <<configVars, poolVars, orphans, now, ticks, removes,
                   shutdowns, threadVars, lock, engine_calls, gatewayVars,
                   manifestVars, restVars>>

\* with self._lock: the operation enters once the lock is free.
LkAcquire(o) ==
    /\ OpAt(o, "wait_lock")
    /\ lock = "free"
    /\ lock' = o
    /\ OpGoes(o, "locked", ops[o].container, {})
    /\ UNCHANGED <<serviceVars, engine_calls, gatewayVars, manifestVars,
                   restVars>>

\* release, lines 79-84.  A full pool has _evict_lru pop the oldest entry
\* and call container.remove on it, inside the with block; otherwise the
\* entry is appended and the lock released.
LkReleaseCritical ==
    /\ OpAt("release", "locked")
    /\ LET c == ops["release"].container
           e == evict_lru(pool, pool_keys)
           a == append_entry(pool, pool_keys, c, handle_key[c], now)
       IN  IF TotalCount(pool, pool_keys) >= max_pool_size /\ e.evicted /= None
           THEN /\ pool' = e.pool
                /\ pool_keys' = e.keys
                /\ idle_log' = Forget(idle_log, {e.evicted})
                /\ engine_calls' = engine_calls \cup {"release"}
                /\ OpGoes("release", "removing", c, {e.evicted})
                /\ UNCHANGED <<lock, ever_pooled>>
           ELSE /\ pool' = a.pool
                /\ pool_keys' = a.keys
                /\ idle_log' = Append(idle_log, <<c, handle_key[c]>>)
                /\ ever_pooled' = ever_pooled \cup {c}
                /\ lock' = "free"
                /\ OpGoes("release", "idle", None, {})
                /\ UNCHANGED engine_calls
    /\ UNCHANGED <<configVars, engineVars, now, ticks, removes, shutdowns,
                   threadVars, gatewayVars, manifestVars, restVars>>

\* reap, lines 128-142: the expired entries leave the pool under the lock;
\* the lock is released and then container.remove is called on each.
LkReapCritical ==
    /\ OpAt("reap", "locked")
    /\ LET r == reap(pool, pool_keys, now, idle_timeout)
       IN  /\ pool' = r.pool
           /\ pool_keys' = r.keys
           /\ idle_log' = Forget(idle_log, r.to_remove)
           /\ lock' = "free"
           /\ IF r.to_remove /= {}
              THEN /\ engine_calls' = engine_calls \cup {"reap"}
                   /\ OpGoes("reap", "removing", None, r.to_remove)
              ELSE /\ OpGoes("reap", "idle", None, {})
                   /\ UNCHANGED engine_calls
    /\ UNCHANGED <<configVars, engineVars, ever_pooled, now, ticks, removes,
                   shutdowns, threadVars, gatewayVars, manifestVars, restVars>>

\* shutdown, lines 167-176: container.remove is called on every entry
\* inside the with block, then the dict is cleared.
LkShutdownCritical ==
    /\ OpAt("shutdown", "locked")
    /\ IF PooledHandles(pool) /= {}
       THEN /\ engine_calls' = engine_calls \cup {"shutdown"}
            /\ OpGoes("shutdown", "removing", None, PooledHandles(pool))
            /\ UNCHANGED <<lock, shutdowns, poolVars>>
       ELSE /\ pool' = EmptyPool
            /\ pool_keys' = <<>>
            /\ idle_log' = <<>>
            /\ lock' = "free"
            /\ shutdowns' = shutdowns + 1
            /\ OpGoes("shutdown", "idle", None, {})
            /\ UNCHANGED <<engine_calls, ever_pooled>>
    /\ UNCHANGED <<configVars, engineVars, now, ticks, removes, threadVars,
                   gatewayVars, manifestVars, restVars>>

\* The container.remove calls of an operation return, and the operation
\* runs to its end: release appends its entry and leaves the with block,
\* shutdown clears the dict and leaves the with block, reap returns.
LkRemoveDone(o) ==
    /\ OpAt(o, "removing")
    /\ engine_calls' = engine_calls \ {o}
    /\ removes' = RemoveCalls(removes, ops[o].pending)
    /\ OpGoes(o, "idle", None, {})
    /\ IF o = "release"
       THEN LET c == ops[o].container
                a == append_entry(pool, pool_keys, c, handle_key[c], now)
            IN  /\ pool' = a.pool
                /\ pool_keys' = a.keys
                /\ idle_log' = Append(idle_log, <<c, handle_key[c]>>)
                /\ ever_pooled' = ever_pooled \cup {c}
                /\ lock' = "free"
                /\ UNCHANGED shutdowns
       ELSE IF o = "shutdown"
       THEN /\ pool' = EmptyPool
            /\ pool_keys' = <<>>
            /\ idle_log' = <<>>
            /\ lock' = "free"
            /\ shutdowns' = shutdowns + 1
            /\ UNCHANGED ever_pooled
       ELSE UNCHANGED <<poolVars, lock, shutdowns>>
    /\ UNCHANGED <<configVars, engineVars, now, ticks, threadVars,
                   gatewayVars, manifestVars, restVars>>

NextLock ==
    \/ \E o \in Ops, key \in Keys : LkCall(o, key)
    \/ \E o \in Ops : LkAcquire(o)
    \/ LkReleaseCritical
    \/ LkReapCritical
    \/ LkShutdownCritical
    \/ \E o \in Ops : LkRemoveDone(o)
    \/ Tick(1)

SpecLock == Init /\ [][NextLock]_vars

\* ------------------------------------------------------------ the gateway
\* Paths and route patterns are sequences of characters.
PathChars == {"/", "u"}

RECURSIVE SeqsUpTo(_, _)
SeqsUpTo(S, n) ==
    IF n = 0 THEN {<<>>}
    ELSE LET shorter == SeqsUpTo(S, n - 1)
         IN  shorter \cup {Append(q, x) : q \in shorter, x \in S}

\* The values of the {path:path} parameter of a request.
Paths == SeqsUpTo(PathChars, MaxPathLen)

\* The methods the gateway endpoints accept, and the methods of Route rows.
RequestMethods == {"GET", "POST"}
RouteMethods == {"GET", "ANY"}

\* The route patterns "/", "/u" and "/:i".
Patterns == {<<"/">>, <<"/", "u">>, <<"/", ":", "i">>}

RouteRows == [method : RouteMethods, path : Patterns]
RouteTables == SeqsUpTo(RouteRows, MaxRoutes)

\* str.upper() on a method name.
Upper(m) ==
    CASE m = "get" -> "GET"
      [] m = "post" -> "POST"
      [] m = "any" -> "ANY"
      [] OTHER -> m

\* str.split("/"): the parts between the slashes, empty ones included.
RECURSIVE SplitFrom(_, _)
SplitFrom(str, part) ==
    IF str = <<>> THEN <<part>>
    ELSE IF Head(str) = "/" THEN <<part>> \o SplitFrom(Tail(str), <<>>)
    ELSE SplitFrom(Tail(str), Append(part, Head(str)))

Split(str) == SplitFrom(str, <<>>)

\* str.rstrip("/"): every trailing slash goes.
RECURSIVE RStrip(_)
RStrip(str) ==
    IF str /= <<>> /\ str[Len(str)] = "/"
    THEN RStrip(SubSeq(str, 1, Len(str) - 1))
    ELSE str

\* _path_pattern_to_regex: one matcher per non-empty segment of the pattern,
\* a named group [^/]+ for ":name" and the escaped text otherwise.
path_pattern_to_regex(pattern) ==
    LET segments == SelectSeq(Split(pattern), LAMBDA g : g /= <<>>)
    IN  [n \in DOMAIN segments |->
            IF Head(segments[n]) = ":"
            THEN [param |-> TRUE, text |-> Tail(segments[n])]
            ELSE [param |-> FALSE, text |-> segments[n]]]

\* regex.match on "^/" + "/".join(parts) + "$": the path is a slash followed
\* by as many slash-separated parts as the regex has matchers, each part
\* equal to its literal or, for a group, non-empty.
regex_match(regex, path) ==
    /\ path /= <<>>
    /\ Head(path) = "/"
    /\ IF regex = <<>> THEN Tail(path) = <<>>
       ELSE LET parts == Split(Tail(path))
            IN  /\ Len(parts) = Len(regex)
                /\ \A n \in DOMAIN regex :
                       IF regex[n].param THEN parts[n] /= <<>>
                       ELSE parts[n] = regex[n].text

\* match.groupdict(): the part captured by each named group.
groupdict(regex, path) ==
    LET parts == Split(Tail(path))
    IN  {<<regex[n].text, parts[n]>> : n \in {m \in DOMAIN regex : regex[m].param}}

\* _match_route, lines 72-75: the normalization of the request path.
normalize_path(request_path) ==
    LET slashed == IF request_path = <<>> \/ Head(request_path) /= "/"
                   THEN <<"/">> \o request_path
                   ELSE request_path
    IN  IF Len(slashed) > 1 /\ slashed[Len(slashed)] = "/"
        THEN RStrip(slashed)
        ELSE slashed

\* The inner loop of _match_route: the first route from index n on whose
\* method is check_method and whose regex matches, or 0.
RECURSIVE first_match(_, _, _, _)
first_match(rts, n, check_method, path) ==
    IF n > Len(rts) THEN 0
    ELSE IF /\ rts[n].method = check_method
            /\ regex_match(path_pattern_to_regex(rts[n].path), path)
    THEN n
    ELSE first_match(rts, n + 1, check_method, path)

\* One pass over the routes that takes a route of the request's method or
\* of method ANY, whichever comes first.
RECURSIVE single_pass(_, _, _, _)
single_pass(rts, n, method, path) ==
    IF n > Len(rts) THEN 0
    ELSE IF /\ rts[n].method \in {method, "ANY"}
            /\ regex_match(path_pattern_to_regex(rts[n].path), path)
    THEN n
    ELSE single_pass(rts, n + 1, method, path)

match_route_single_pass(rts, method, request_path) ==
    LET path == normalize_path(request_path)
        found == single_pass(rts, 1, Upper(method), path)
    IN  [route |-> found, path |-> path,
         params |-> IF found = 0 THEN {}
                    ELSE groupdict(path_pattern_to_regex(rts[found].path), path)]

\* _match_route: the routes of the request's method first, then those of
\* method ANY.  route is the index of the route returned, 0 for None; path
\* is the local request_path after normalization.
match_route(rts, method, request_path) ==
    LET path == normalize_path(request_path)
        exact == first_match(rts, 1, Upper(method), path)
        found == IF exact /= 0 THEN exact ELSE first_match(rts, 1, "ANY", path)
    IN  [route |-> found, path |-> path,
         params |-> IF found = 0 THEN {}
                    ELSE groupdict(path_pattern_to_regex(rts[found].path), path)]

\* _handle_gateway, line 130.
handler_path(path) == IF path = <<>> THEN <<"/">> ELSE <<"/">> \o path

\* Steps 1-6 of _handle_gateway with the function's status never looked at.
gateway_outcome_any_status(slug_known, rts, matched, fn_active, version_found) ==
    IF ~slug_known THEN [status |-> 404, detail |-> "Project not found"]
    ELSE IF rts = <<>>
    THEN [status |-> 404, detail |-> "No routes configured for this project"]
    ELSE IF matched = 0 THEN [status |-> 404, detail |-> "No route matches"]
    ELSE IF ~version_found
    THEN [status |-> 500, detail |-> "Active version not found"]
    ELSE [status |-> 0, detail |-> "none"]

\* _handle_gateway, lines 109-179: the response that ends the request before
\* the function is invoked, status 0 when there is none.
gateway_outcome(slug_known, rts, matched, fn_active, version_found) ==
    IF ~slug_known THEN [status |-> 404, detail |-> "Project not found"]
    ELSE IF rts = <<>>
    THEN [status |-> 404, detail |-> "No routes configured for this project"]
    ELSE IF matched = 0 THEN [status |-> 404, detail |-> "No route matches"]
    ELSE IF ~fn_active
    THEN [status |-> 503,
          detail |-> "The function for this route is not available"]
    ELSE IF ~version_found
    THEN [status |-> 500, detail |-> "Active version not found"]
    ELSE [status |-> 0, detail |-> "none"]

\* The project has a route table; no request yet.
InitRouted ==
    /\ InitService
    /\ max_pool_size = MaxPoolSize
    /\ InitLock
    /\ InitManifest
    /\ InitRest
    /\ routes \in RouteTables
    /\ gw = NoRequest
    /\ invocation_log = <<>>

\* A request arrives at gateway_with_path or gateway_root.
GwRequest(method, path) ==
    /\ gw.pc \in {"idle", "responded"}
    /\ gw.n < MaxRequests
    /\ gw' = [NoRequest EXCEPT !.pc = "received", !.n = gw.n + 1,
                               !.method = method, !.path = path]
    /\ UNCHANGED <<serviceVars, lockVars, manifestVars,
                   restVars, routes, invocation_log>>

\* _handle_gateway, lines 109-182: the project, its routes, the match, the
\* function and its active version are looked up in turn; what a lookup
\* finds is recorded when the handler gets to it.
GwRoute(slug_known, fn_active, version_found, terminates) ==
    /\ gw.pc = "received"
    /\ LET request_path == handler_path(gw.path)
           m == match_route(routes, gw.method, request_path)
           looked == slug_known /\ routes /= <<>>
           out == gateway_outcome(slug_known, routes,
                                  IF looked THEN m.route ELSE 0,
                                  fn_active, version_found)
           at_fn == looked /\ m.route /= 0
           at_version == at_fn /\ fn_active
           at_invoke == out.status = 0
       IN  /\ ~looked => ~fn_active
           /\ ~at_fn => ~fn_active
           /\ ~at_version => ~version_found
           /\ ~at_invoke => ~terminates
           /\ gw' = [gw EXCEPT
                  !.pc = IF at_invoke THEN "invoking" ELSE "responded",
                  !.slug_known = slug_known,
                  !.fn_active = fn_active,
                  !.version_found = version_found,
                  !.terminates = terminates,
                  !.request_path = IF looked THEN request_path ELSE <<>>,
                  !.matched_path = IF looked THEN m.path ELSE <<>>,
                  !.route = IF looked THEN m.route ELSE 0,
                  !.params = IF looked THEN m.params ELSE {},
                  !.event_path = IF at_invoke THEN request_path ELSE <<>>,
                  !.invoked = at_invoke,
                  !.status = out.status,
                  !.detail = out.detail]
    /\ UNCHANGED <<serviceVars, lockVars, manifestVars,
                   restVars, routes, invocation_log>>

\* The results invoke can return: those of _do_invoke.
GatewayResults == {Returned(0, r, TRUE) : r \in ExecResponses}

\* await invoke_service.invoke(...) returns; it does when exec_run does.
GwInvokeReturn(r) ==
    /\ gw.pc = "invoking"
    /\ gw.terminates
    /\ gw' = [gw EXCEPT !.pc = "returned", !.success = r.success,
                        !.output = r.output]
    /\ UNCHANGED <<serviceVars, lockVars, manifestVars,
                   restVars, routes, invocation_log>>

\* _handle_gateway, lines 196-211: the Invocation row is added and committed.
GwRecord ==
    /\ gw.pc = "returned"
    /\ invocation_log' = Append(invocation_log,
           [request |-> gw.n, source |-> "gateway", http_method |-> gw.method,
            http_path |-> gw.request_path, event_path |-> gw.event_path,
            status |-> IF gw.success THEN "success" ELSE "error"])
    /\ gw' = [gw EXCEPT !.pc = "recorded"]
    /\ UNCHANGED <<serviceVars, lockVars, manifestVars, restVars, routes>>

\* _handle_gateway, lines 214-233: the response for the function's result.
GwRespond ==
    /\ gw.pc = "recorded"
    /\ gw' = [gw EXCEPT !.pc = "responded",
                        !.status = IF gw.success THEN 200 ELSE 500,
                        !.detail = IF gw.success THEN "none" ELSE gw.output]
    /\ UNCHANGED <<serviceVars, lockVars, manifestVars,
                   restVars, routes, invocation_log>>

NextGateway ==
    \/ \E method \in RequestMethods, path \in Paths : GwRequest(method, path)
    \/ \E slug_known, fn_active, version_found, terminates \in BOOLEAN :
          GwRoute(slug_known, fn_active, version_found, terminates)
    \/ \E r \in GatewayResults : GwInvokeReturn(r)
    \/ GwRecord
    \/ GwRespond

SpecGateway == InitRouted /\ [][NextGateway]_vars

\* The handler is a coroutine the event loop keeps running; invoke returns
\* when the function's code ends.
SpecGatewayLive ==
    /\ InitRouted
    /\ [][NextGateway]_vars
    /\ WF_vars(\E slug_known, fn_active, version_found, terminates \in BOOLEAN :
                  GwRoute(slug_known, fn_active, version_found, terminates))
    /\ WF_vars(\E r \in GatewayResults : GwInvokeReturn(r))
    /\ WF_vars(GwRecord)
    /\ WF_vars(GwRespond)

\* ------------------------------------------------------ the manifest hash
\* A requirements.txt is a sequence of characters: two letters, the blank,
\* the comment sign and the line break.
NL == "\n"
ManifestChars == {"f", "r", " ", "#", NL}
Manifests == SeqsUpTo(ManifestChars, MaxManifestLen)

\* The place of a character in the order sorted() compares strings by.
CodePoint(ch) ==
    CASE ch = NL -> 10
      [] ch = " " -> 32
      [] ch = "#" -> 35
      [] ch = "f" -> 102
      [] ch = "r" -> 114

\* str.splitlines(): the lines between line breaks; a final line break
\* starts no further line.
RECURSIVE SplitLinesFrom(_, _)
SplitLinesFrom(text, line) ==
    IF text = <<>> THEN (IF line = <<>> THEN <<>> ELSE <<line>>)
    ELSE IF Head(text) = NL THEN <<line>> \o SplitLinesFrom(Tail(text), <<>>)
    ELSE SplitLinesFrom(Tail(text), Append(line, Head(text)))

splitlines(text) == SplitLinesFrom(text, <<>>)

\* str.strip(): the blanks at both ends go.
RECURSIVE LStrip(_)
LStrip(line) ==
    IF line /= <<>> /\ Head(line) = " " THEN LStrip(Tail(line)) ELSE line

RECURSIVE RStripBlanks(_)
RStripBlanks(line) ==
    IF line /= <<>> /\ line[Len(line)] = " "
    THEN RStripBlanks(SubSeq(line, 1, Len(line) - 1))
    ELSE line

strip(line) == RStripBlanks(LStrip(line))

\* The order of Python strings: by the first character that differs, a
\* proper prefix first.
RECURSIVE StrLess(_, _)
StrLess(a, b) ==
    IF b = <<>> THEN FALSE
    ELSE IF a = <<>> THEN TRUE
    ELSE IF Head(a) /= Head(b) THEN CodePoint(Head(a)) < CodePoint(Head(b))
    ELSE StrLess(Tail(a), Tail(b))

\* sorted(): each line is put before the first line greater than it.
RECURSIVE InsertSorted(_, _)
InsertSorted(lines, line) ==
    IF lines = <<>> THEN <<line>>
    ELSE IF StrLess(line, Head(lines)) THEN <<line>> \o lines
    ELSE <<Head(lines)>> \o InsertSorted(Tail(lines), line)

RECURSIVE sorted(_)
sorted(lines) ==
    IF lines = <<>> THEN <<>>
    ELSE InsertSorted(sorted(SubSeq(lines, 1, Len(lines) - 1)),
                      lines[Len(lines)])

\* "\n".join(lines)
RECURSIVE join(_)
join(lines) ==
    IF lines = <<>> THEN <<>>
    ELSE IF Len(lines) = 1 THEN Head(lines)
    ELSE Head(lines) \o <<NL>> \o join(Tail(lines))

\* The lines the hash is taken of: stripped, the empty ones and the ones
\* that start with "#" left out.
dependency_lines(requirements_txt) ==
    LET stripped == [n \in DOMAIN splitlines(requirements_txt) |->
                        strip(splitlines(requirements_txt)[n])]
    IN  SelectSeq(stripped, LAMBDA l : l /= <<>> /\ Head(l) /= "#")

\* The hash taken of the lines in the order of the file.
compute_requirements_hash_unsorted(requirements_txt) ==
    join(dependency_lines(requirements_txt))

\* compute_requirements_hash: the SHA256 digest of the joined sorted lines.
\* The digest stands for its input: two contents have the same digest
\* exactly when they are equal.
compute_requirements_hash(requirements_txt) ==
    join(sorted(dependency_lines(requirements_txt)))

\* build_project_image, line 76: the hash of a requirements.txt handed in.
HashRequirements(requirements_txt) ==
    /\ requirements' = requirements_txt
    /\ requirements_hash' = compute_requirements_hash(requirements_txt)
    /\ UNCHANGED <<serviceVars, lockVars, gatewayVars, restVars>>

NextHash == \E requirements_txt \in Manifests : HashRequirements(requirements_txt)

\* The service is configured and idle while manifests are hashed.
InitHash == Init /\ max_pool_size = MaxPoolSize

SpecHash == InitHash /\ [][NextHash]_vars

\* ------------------------------------------------- the worker, call by call
\* worker_service.execute on one container: put_archive copies function.py
\* into /app, exec_run runs the bootstrap.
Codes == 1 .. NumCodes
PutOutcomes == {"ok", "raises"}
ExitCodes == {0, 1}

\* What exec_run does: it raises, or the bootstrap exits with an exit code
\* and an output.
ExecOutcomes ==
    {[raises |-> TRUE, exit_code |-> 0, stdout |-> "empty"]}
        \cup {[raises |-> FALSE, exit_code |-> e, stdout |-> out] :
                 e \in ExitCodes, out \in StdoutShapes}

\* execute, lines 63-97.  No call of the engine is inside a try: an
\* exception of put_archive leaves execute at line 65, before exec_run, and
\* an exception of exec_run leaves it at line 75.
execute(sb, code, put, ex) ==
    IF put = "raises"
    THEN [sandbox |-> sb, exec_run |-> FALSE, outcome |-> EngineRaised]
    ELSE LET injected == [sb EXCEPT !.code = code]
         IN  IF ex.raises
             THEN [sandbox |-> injected, exec_run |-> TRUE,
                   outcome |-> EngineRaised]
             ELSE [sandbox |-> [injected EXCEPT !.runs = @ + 1],
                   exec_run |-> TRUE,
                   outcome |-> WorkerParse(ex.exit_code, ex.stdout)]

\* _do_invoke, line 152: worker_execute is called on the container.
Execute(code, put, ex) ==
    /\ sandbox.runs < MaxRuns
    /\ LET e == execute(sandbox, code, put, ex)
       IN  /\ sandbox' = e.sandbox
           /\ execution' = [code |-> code, put |-> put, exec_run |-> e.exec_run,
                            exec_raised |-> e.exec_run /\ ex.raises,
                            exit_code |-> IF e.exec_run THEN ex.exit_code ELSE 0,
                            stdout |-> IF e.exec_run THEN ex.stdout
                                       ELSE "empty",
                            before |-> sandbox, raised |-> e.outcome.raised,
                            success |-> e.outcome.success,
                            output |-> e.outcome.output]
    /\ UNCHANGED <<serviceVars, lockVars, gatewayVars, manifestVars,
                   versionVars, imageVars, reaperVars>>

\* The container is replaced by a fresh one.
NewSandbox ==
    /\ sandbox /= FreshSandbox
    /\ sandbox' = FreshSandbox
    /\ UNCHANGED <<execution, serviceVars, lockVars, gatewayVars, manifestVars,
                   versionVars, imageVars, reaperVars>>

NextWorker ==
    \/ \E code \in Codes, put \in PutOutcomes, ex \in ExecOutcomes :
          Execute(code, put, ex)
    \/ NewSandbox

SpecWorker == InitHash /\ [][NextWorker]_vars

\* ------------------------------------------------- the functions router
\* The rows of functions and function_versions, and the handlers that write
\* them.  (function_id, version) is the primary key of function_versions:
\* an INSERT of a pair that has a row fails with an IntegrityError at the
\* commit, and the transaction of the request is rolled back.

HasVersion(fvs, fn, version) ==
    version \in Versions /\ fvs[fn][version] /= NoCode

\* _resolve_code: the code of the active version, "" without a row.
resolve_code(fns, fvs, fn) ==
    IF HasVersion(fvs, fn, fns[fn]) THEN fvs[fn][fns[fn]] ELSE NoCode

\* create_function, lines 69-88: the function with active_version 1 and
\* its version 1.
create_function(fns, fvs, fn, code) ==
    [functions |-> [fns EXCEPT ![fn] = 1],
     function_versions |-> [fvs EXCEPT ![fn][1] = code],
     status |-> 200]

\* update_function, lines 148-158, for a code handed in: the version after
\* the active version the handler read is inserted and made active.
update_function(fns, fvs, fn, active_version, new_code) ==
    LET new_version_num == active_version + 1
    IN  IF HasVersion(fvs, fn, new_version_num)
        THEN [functions |-> fns, function_versions |-> fvs, status |-> 500,
              version |-> new_version_num]
        ELSE [functions |-> [fns EXCEPT ![fn] = new_version_num],
              function_versions |->
                  [fvs EXCEPT ![fn][new_version_num] = new_code],
              status |-> 200, version |-> new_version_num]

\* set_active_version making any version number active.
set_active_version_unchecked(fns, fvs, fn, version) ==
    [functions |-> [fns EXCEPT ![fn] = version], status |-> 200]

\* set_active_version, lines 195-200: a version without a row is a 404.
set_active_version(fns, fvs, fn, version) ==
    IF ~HasVersion(fvs, fn, version)
    THEN [functions |-> fns, status |-> 404]
    ELSE [functions |-> [fns EXCEPT ![fn] = version], status |-> 200]

\* POST /api/functions.  generate_id gives the row an id no row has.
CreateFunction(fn, code) ==
    /\ functions[fn] = NoVersion
    /\ LET c == create_function(functions, function_versions, fn, code)
       IN  /\ functions' = c.functions
           /\ function_versions' = c.function_versions
           /\ response' = [NoResponse EXCEPT
                               !.op = "create_function", !.fn = fn,
                               !.status = c.status, !.new_code = code,
                               !.version = 1, !.active_version = 1,
                               !.code = code]
    /\ UNCHANGED <<updating, serviceVars, lockVars, gatewayVars, manifestVars,
                   workerVars, imageVars, reaperVars>>

\* PUT /api/functions/{function_id}, lines 136-141: the handler reads the
\* function, answers 404 when there is none, and keeps the row it read.
\* new_code is NoCode when the body has no code.
UpdateGet(u, fn, new_code) ==
    /\ updating[u].pc = "idle"
    /\ IF functions[fn] = NoVersion
       THEN /\ response' = [NoResponse EXCEPT
                                !.op = "update_function", !.fn = fn,
                                !.status = 404, !.new_code = new_code]
            /\ UNCHANGED updating
       ELSE /\ new_code /= NoCode => functions[fn] < MaxVersions
            /\ updating' = [updating EXCEPT
                                ![u] = [pc |-> "commit", fn |-> fn,
                                        new_code |-> new_code,
                                        active_version |-> functions[fn]]]
            /\ UNCHANGED response
    /\ UNCHANGED <<functions, function_versions, serviceVars, lockVars,
                   gatewayVars, manifestVars, workerVars, imageVars,
                   reaperVars>>

\* PUT /api/functions/{function_id}, lines 143-161: the commit, the refresh
\* of the function and the response.
UpdateCommit(u) ==
    /\ updating[u].pc = "commit"
    /\ LET fn == updating[u].fn
           new_code == updating[u].new_code
           upd == IF new_code = NoCode
                  THEN [functions |-> functions,
                        function_versions |-> function_versions,
                        status |-> 200, version |-> NoVersion]
                  ELSE update_function(functions, function_versions, fn,
                                       updating[u].active_version, new_code)
       IN  /\ functions' = upd.functions
           /\ function_versions' = upd.function_versions
           /\ response' = [NoResponse EXCEPT
                               !.op = "update_function", !.fn = fn,
                               !.status = upd.status, !.new_code = new_code,
                               !.version = upd.version,
                               !.used_before =
                                   HasVersion(function_versions, fn, upd.version),
                               !.active_version =
                                   IF upd.status = 200 THEN upd.functions[fn]
                                   ELSE NoVersion,
                               !.code =
                                   IF upd.status = 200
                                   THEN resolve_code(upd.functions,
                                                     upd.function_versions, fn)
                                   ELSE NoCode]
    /\ updating' = [updating EXCEPT ![u] = NoUpdate]
    /\ UNCHANGED <<serviceVars, lockVars, gatewayVars, manifestVars, workerVars,
                   imageVars, reaperVars>>

\* PUT /api/functions/{function_id}/versions/{version}.
SetActiveVersion(fn, version) ==
    /\ IF functions[fn] = NoVersion
       THEN /\ response' = [NoResponse EXCEPT
                                !.op = "set_active_version", !.fn = fn,
                                !.status = 404, !.version = version]
            /\ UNCHANGED functions
       ELSE LET a == set_active_version(functions, function_versions, fn,
                                        version)
            IN  /\ functions' = a.functions
                /\ response' = [NoResponse EXCEPT
                                    !.op = "set_active_version", !.fn = fn,
                                    !.status = a.status, !.version = version,
                                    !.active_version =
                                        IF a.status = 200 THEN version
                                        ELSE NoVersion,
                                    !.code =
                                        IF a.status = 200
                                        THEN resolve_code(a.functions,
                                                          function_versions, fn)
                                        ELSE NoCode]
    /\ UNCHANGED <<function_versions, updating, serviceVars, lockVars,
                   gatewayVars, manifestVars, workerVars, imageVars,
                   reaperVars>>

\* The path parameter version is any integer: the numbers of the table and
\* two numbers that are no version.
VersionParams == 0 .. MaxVersions + 1

NextVersions ==
    \/ \E fn \in FunctionIds, code \in Codes : CreateFunction(fn, code)
    \/ \E u \in Updaters, fn \in FunctionIds, new_code \in Codes \cup {NoCode} :
          UpdateGet(u, fn, new_code)
    \/ \E u \in Updaters : UpdateCommit(u)
    \/ \E fn \in FunctionIds, version \in VersionParams :
          SetActiveVersion(fn, version)

SpecVersions == InitHash /\ [][NextVersions]_vars

\* The requests of the functions router one at a time.
Quiet == \A w \in Updaters : updating[w].pc = "idle"

SeqUpdateGet(u, fn, new_code) == Quiet /\ UpdateGet(u, fn, new_code)

SeqCreateFunction(fn, code) == Quiet /\ CreateFunction(fn, code)

SeqSetActiveVersion(fn, version) == Quiet /\ SetActiveVersion(fn, version)

NextVersionsSeq ==
    \/ \E fn \in FunctionIds, code \in Codes : SeqCreateFunction(fn, code)
    \/ \E u \in Updaters, fn \in FunctionIds, new_code \in Codes \cup {NoCode} :
          SeqUpdateGet(u, fn, new_code)
    \/ \E u \in Updaters : UpdateCommit(u)
    \/ \E fn \in FunctionIds, version \in VersionParams :
          SeqSetActiveVersion(fn, version)

SpecVersionsSeq == InitHash /\ [][NextVersionsSeq]_vars

\* ------------------------------------------------- the image builder
\* update_requirements and build_project_image, cut at the calls of the
\* engine: images.get, images.build, images.list, images.remove.  The
\* handler runs them in a thread and awaits it, so requests interleave at
\* every one of these calls and before the commit.

\* The bodies of PUT /api/projects/{project_id}/requirements.
BuildTexts == {<<>>, <<" ">>, <<"f">>, <<"r">>, <<"f", NL, "#">>}

Whitespace == {" ", NL}

\* str.strip() on the whole text: blanks and line breaks at both ends go.
RECURSIVE LStripText(_)
LStripText(text) ==
    IF text /= <<>> /\ Head(text) \in Whitespace THEN LStripText(Tail(text))
    ELSE text

RECURSIVE RStripText(_)
RStripText(text) ==
    IF text /= <<>> /\ text[Len(text)] \in Whitespace
    THEN RStripText(SubSeq(text, 1, Len(text) - 1))
    ELSE text

strip_text(text) == RStripText(LStripText(text))

\* get_image_name: clowdy-project-{project_id}:{hash[:8]}.  The first eight
\* digits stand for the digest.
get_image_name(project_id, hash) == <<project_id, hash>>

\* cleanup_old_images removing every tag of the project.
old_tags_all(tags, project_id, keep_hash) ==
    {tag \in tags : tag[1] = project_id}

\* cleanup_old_images, lines 152-159: the tags that start with the
\* project's prefix and are not the tag to keep.
old_tags(tags, project_id, keep_hash) ==
    {tag \in tags : tag[1] = project_id
                       /\ tag /= get_image_name(project_id, keep_hash)}

\* update_requirements, lines 76-102: the project is read and the text
\* stripped.  An empty text clears the project.  An unchanged hash goes to
\* the check of the image, any other to the build.
UrBegin(b, text) ==
    /\ builds[b].pc = "idle"
    /\ LET requirements_txt == strip_text(text)
           new_hash == compute_requirements_hash(requirements_txt)
       IN  IF requirements_txt = <<>>
           THEN /\ project' = [requirements_txt |-> <<>>,
                               requirements_hash |-> NoHash]
                /\ builds' = [builds EXCEPT ![b] = NoBuild]
           ELSE /\ builds' = [builds EXCEPT ![b] =
                                 [NoBuild EXCEPT
                                      !.pc = IF new_hash = project.requirements_hash
                                             THEN "check_image" ELSE "build",
                                      !.requirements_txt = requirements_txt,
                                      !.req_hash = new_hash]]
                /\ UNCHANGED project
    /\ UNCHANGED <<images, serviceVars, lockVars, gatewayVars, manifestVars,
                   workerVars, versionVars, reaperVars>>

\* update_requirements, lines 96-103: with the image in the engine the
\* handler answers without a build, and falls through to the build
\* without it.
UrCheckImage(b) ==
    /\ builds[b].pc = "check_image"
    /\ builds' = [builds EXCEPT ![b] =
                      IF get_image_name(ProjectId, builds[b].req_hash) \in images
                      THEN NoBuild
                      ELSE [builds[b] EXCEPT !.pc = "build"]]
    /\ UNCHANGED <<images, project, serviceVars, lockVars, gatewayVars,
                   manifestVars, workerVars, versionVars, reaperVars>>

\* build_project_image, lines 76-81: an image that exists is returned.
BuildCheck(b) ==
    /\ builds[b].pc = "build"
    /\ LET image_name == get_image_name(ProjectId, builds[b].req_hash)
       IN  builds' = [builds EXCEPT ![b] =
                          IF image_name \in images
                          THEN [@ EXCEPT !.pc = "returned", !.cached = TRUE,
                                         !.before = images, !.ok = TRUE,
                                         !.hash = builds[b].req_hash]
                          ELSE [@ EXCEPT !.pc = "building", !.before = images]]
    /\ UNCHANGED <<images, project, serviceVars, lockVars, gatewayVars,
                   manifestVars, workerVars, versionVars, reaperVars>>

\* build_project_image, lines 108-116 and 121-140: images.build tags the
\* image, or raises and (False, error, "") is returned.
BuildDone(b, built) ==
    /\ builds[b].pc = "building"
    /\ IF built
       THEN /\ images' = images
                             \cup {get_image_name(ProjectId, builds[b].req_hash)}
            /\ builds' = [builds EXCEPT ![b].pc = "list",
                                        ![b].submitted = TRUE]
       ELSE /\ builds' = [builds EXCEPT ![b].pc = "failed",
                                        ![b].submitted = TRUE,
                                        ![b].ok = FALSE, ![b].hash = NoHash]
            /\ UNCHANGED images
    /\ UNCHANGED <<project, serviceVars, lockVars, gatewayVars, manifestVars,
                   workerVars, versionVars, reaperVars>>

\* cleanup_old_images, lines 155-159 and 164-166: images.list gives the
\* tags to go through, or raises and nothing is removed.
PruneList(b, list_ok) ==
    /\ builds[b].pc = "list"
    /\ LET olds == IF list_ok
                   THEN old_tags(images, ProjectId, builds[b].req_hash)
                   ELSE {}
       IN  builds' = [builds EXCEPT
                          ![b].pc = IF olds = {} THEN "returned" ELSE "remove",
                          ![b].listed = list_ok,
                          ![b].listing = olds,
                          ![b].to_remove = olds,
                          ![b].ok = TRUE, ![b].hash = builds[b].req_hash]
    /\ UNCHANGED <<images, project, serviceVars, lockVars, gatewayVars,
                   manifestVars, workerVars, versionVars, reaperVars>>

\* cleanup_old_images, lines 160-163: images.remove(tag, force=True) takes
\* the tag away, or raises (the image runs a container, the tag is gone)
\* and the exception is swallowed.
PruneRemove(b, tag, removed) ==
    /\ builds[b].pc = "remove"
    /\ tag \in builds[b].to_remove
    /\ images' = IF removed THEN images \ {tag} ELSE images
    /\ builds' = [builds EXCEPT
                      ![b].pc = IF builds[b].to_remove = {tag} THEN "returned"
                                ELSE "remove",
                      ![b].to_remove = @ \ {tag},
                      ![b].attempted = @ \cup {tag},
                      ![b].refused = IF removed THEN @ ELSE @ \cup {tag}]
    /\ UNCHANGED <<project, serviceVars, lockVars, gatewayVars, manifestVars,
                   workerVars, versionVars, reaperVars>>

\* update_requirements, lines 115-127: the project takes the text and the
\* hash of the build and is committed.
UrStore(b) ==
    /\ builds[b].pc = "returned"
    /\ project' = [requirements_txt |-> builds[b].requirements_txt,
                   requirements_hash |-> builds[b].hash]
    /\ builds' = [builds EXCEPT ![b] = NoBuild]
    /\ UNCHANGED <<images, serviceVars, lockVars, gatewayVars, manifestVars,
                   workerVars, versionVars, reaperVars>>

\* update_requirements, lines 109-113: a failed build is a 422.
UrFail(b) ==
    /\ builds[b].pc = "failed"
    /\ builds' = [builds EXCEPT ![b] = NoBuild]
    /\ UNCHANGED <<images, project, serviceVars, lockVars, gatewayVars,
                   manifestVars, workerVars, versionVars, reaperVars>>

ImageTags == {<<pid, compute_requirements_hash(strip_text(text))>> :
                 pid \in {ProjectId, OtherProjectId}, text \in BuildTexts}

BuilderStep(b) ==
    \/ UrCheckImage(b)
    \/ BuildCheck(b)
    \/ \E built \in BOOLEAN : BuildDone(b, built)
    \/ \E list_ok \in BOOLEAN : PruneList(b, list_ok)
    \/ \E tag \in ImageTags, removed \in BOOLEAN : PruneRemove(b, tag, removed)
    \/ UrStore(b)
    \/ UrFail(b)

NextImages ==
    \/ \E b \in Builders, text \in BuildTexts : UrBegin(b, text)
    \/ \E b \in Builders : BuilderStep(b)

SpecImages == InitHash /\ [][NextImages]_vars

\* No update_requirements request is under way.
BuildersIdle == \A b \in Builders : builds[b].pc = "idle"

\* ------------------------------------------------- the reaper task
\* run_reaper: sleep, call reap(), log an exception of it, and again, until
\* lifespan cancels the task at shutdown.

\* run_reaper without the try: an exception of reap() ends the task.
after_reap_error_exit(task) == "dead"

\* run_reaper, lines 158-161: the exception is logged and the loop goes on.
after_reap_error(task) == task

ReaperRunning == reaper.task = "running" /\ shutdowns = 0

\* run_reaper, line 159: reap() returns.
RpReap == reaper.task = "running" /\ Reap

\* run_reaper, lines 160-161: reap() raises before it has touched the pool.
RpReapRaises ==
    /\ ReaperRunning
    /\ reaper.errors < MaxReapErrors
    /\ reaper' = [task |-> after_reap_error(reaper.task),
                  errors |-> reaper.errors + 1]
    /\ UNCHANGED <<serviceVars, lockVars, gatewayVars, manifestVars,
                   workerVars, versionVars, imageVars>>

\* Invocations that succeed fill the pool; the reaper and the clock run;
\* the application may shut down.
NextReaper ==
    \/ \E i \in Threads, rq \in Requests : Start(i, rq[1], rq[2], "ok", TRUE)
    \/ \E i \in Threads : ExecReturn(i, WorkerParse(0, "json_object"))
    \/ RpReap
    \/ RpReapRaises
    \/ Shutdown
    \/ Tick(1)

\* The event loop runs the reaper task again and again, and time passes.
SpecReaper ==
    /\ InitHash
    /\ [][NextReaper]_vars
    /\ WF_vars(RpReap)
    /\ WF_vars(Tick(1))

\* ------------------------------------------------------------ properties
Count == TotalCount(pool, pool_keys)
Occurrences(h) ==
    Cardinality({<<k, n>> \in Keys \X (1 .. MaxHandles + 1) :
                    n \in DOMAIN pool[k] /\ pool[k][n].container = h})
Pooled(h) == Occurrences(h) > 0
Destroyed(h) == removes[h] >= 1
Owned(h) == Owners(h) /= {}
Returns(i) == pc[i] = "exec" /\ pc'[i] = "idle"

\* C1: the total number of pool entries over all keys is at most
\* max_pool_size in every reachable state, for every configured
\* max_pool_size.
C1_PoolBounded == Count <= max_pool_size

\* C2: every handle that create returned is in exactly one of the states
\* owned by one in-flight invocation, idle in the pool as one entry,
\* destroyed; no handle is owned twice, pooled twice, or pooled or owned
\* once destroyed.
C2_OneState ==
    \A h \in Handles :
        LET n == Cardinality(Owners(h)) + Occurrences(h)
                 + (IF Destroyed(h) THEN 1 ELSE 0)
        IN  IF h \in (1 .. created) \ orphans THEN n = 1 ELSE n = 0

\* A destroyed container beside one taken warm from the pool.
C2_Witness ==
    \E h1, h2 \in Handles :
        /\ Destroyed(h1)
        /\ \E i \in Threads : pc[i] = "exec" /\ container[i] = h2 /\ ~cold_start[i]

\* C3: an acquire for a key returns the handle released last among those
\* released under exactly that key and not taken out of the pool since, and
\* none (a cold start) when there is no such handle.
C3_AcquireLifo ==
    [][\A i \in Threads :
          pc[i] = "idle" /\ pc'[i] = "exec" =>
              LET idle == SelectSeq(idle_log, LAMBDA e : e[2] = req'[i])
              IN  IF idle = <<>>
                  THEN cold_start'[i] /\ container'[i] = created'
                       /\ created' = created + 1
                  ELSE ~cold_start'[i] /\ container'[i] = idle[Len(idle)][1]]_vars

\* A warm start that left an older entry under the same key.
C3_Witness ==
    \E i \in Threads : pc[i] = "exec" /\ ~cold_start[i] /\ pool[req[i]] /= <<>>

\* C4: once shutdown() has returned the pool is empty and every handle that
\* was ever in the pool has been destroyed exactly once, also when an
\* invocation was in flight at shutdown and when shutdown is called again.
C4_ShutdownDrains ==
    shutdowns >= 1 => Count = 0 /\ \A h \in ever_pooled : removes[h] = 1

\* C7: an invocation whose worker raised destroys its container and leaves
\* the pool as it was; one whose worker returned, a clean success=false
\* included, appends the container under its key and the count grows by at
\* most one; a destroyed container is never in the pool.
C7_Step ==
    /\ \A i \in Threads :
          Returns(i) =>
              LET h == container[i]
              IN  IF result'.output = ExecutionError
                  THEN /\ removes'[h] = removes[h] + 1
                       /\ pool' = pool
                  ELSE /\ removes'[h] = removes[h]
                       /\ pool'[req[i]] /= <<>>
                       /\ pool'[req[i]][Len(pool'[req[i]])].container = h
                       /\ \A k \in Keys \ {req[i]} :
                              \A n \in DOMAIN pool'[k] : pool'[k][n].container /= h
                       /\ TotalCount(pool', pool_keys') <= Count + 1
    /\ \A i \in Threads :
          pc[i] = "idle" /\ pc'[i] = "idle" /\ result' /= result
          /\ result'.thread = i /\ result'.output = ExecutionError =>
              /\ TotalCount(pool', pool_keys') <= Count
              /\ \E h \in Handles :
                    /\ removes'[h] = removes[h] + 1
                    /\ \A k \in Keys : \A n \in DOMAIN pool'[k] :
                           pool'[k][n].container /= h

C7_DisposedByWhoFailed ==
    /\ [](\A h \in Handles : Destroyed(h) => ~Pooled(h))
    /\ [][C7_Step]_vars

\* A clean user error whose container went back to the pool, beside a
\* container destroyed.
C7_Witness ==
    /\ result.output = "error field"
    /\ ~result.success
    /\ \E h \in Handles : Pooled(h)
    /\ \E h \in Handles : Destroyed(h)

\* C5: on a fresh service with a reachable engine the first invocation
\* reports cold_start=true, and a second invocation started after the first
\* has returned, for the same (image, network_enabled), is warm and runs in
\* the container the first one created.
C5_SecondIsWarm ==
    /\ result.thread = 1 => result.cold_start
    /\ pc[2] = "exec" /\ req[2] = handle_key[1] =>
           ~cold_start[2] /\ container[2] = 1

\* The worker of an invocation raised and the invocation has returned
\* (from exec_run, or from put_archive before it).
RaisedAfterExec(i) == Returns(i) /\ result'.output = ExecutionError
RaisedAtInject(i) ==
    /\ pc[i] = "idle" /\ pc'[i] = "idle"
    /\ result' /= result
    /\ result'.thread = i /\ result'.output = ExecutionError

\* C6: when the worker raises, the pool holds as many containers after the
\* invocation returns as before it started, for a warm start as for a cold
\* one.
C6_CountUnchanged ==
    [][\A i \in Threads :
          /\ RaisedAfterExec(i) => TotalCount(pool', pool_keys') = pool_before[i]
          /\ RaisedAtInject(i) => TotalCount(pool', pool_keys') = Count]_vars

\* C6 as amended: after a worker that raised the count is the count before
\* the invocation for a cold start, and one less for a warm start.
C6_CountAfterRaise ==
    [][\A i \in Threads :
          /\ RaisedAfterExec(i) =>
                 TotalCount(pool', pool_keys')
                     = pool_before[i] - (IF cold_start[i] THEN 0 ELSE 1)
          /\ RaisedAtInject(i) =>
                 TotalCount(pool', pool_keys')
                     = Count - (IF result'.cold_start THEN 0 ELSE 1)]_vars

\* A warm invocation whose worker raised has returned.
C6_Witness ==
    /\ result.output = ExecutionError
    /\ ~result.cold_start
    /\ \A i \in Threads : pc[i] = "idle"

TimedOut == "Function timed out after 30 seconds"

\* C8: an invocation whose exec ran for longer than TIMEOUT_SECONDS returns
\* success=false with the timed-out message, its container is destroyed and
\* the pool is left as it was.
C8_TimeoutResult ==
    [][\A i \in Threads :
          Returns(i) /\ overdue[i] =>
              /\ ~result'.success
              /\ result'.output = TimedOut
              /\ removes'[container[i]] = removes[container[i]] + 1
              /\ pool' = pool]_vars

\* C9: no invocation stays suspended in exec_run for longer than
\* TIMEOUT_SECONDS, so every invocation returns and disposes of its
\* container.
C9_ExecBounded == \A i \in Threads : pc[i] = "exec" => ~overdue[i]

C11_NoEngineCallUnderLock == \A o \in engine_calls : lock /= o

\* C12: no blocking engine call runs on the event-loop thread, the destroys
\* of the reaper task and of shutdown included.
C12_OffTheEventLoop == \A o \in engine_calls : RunsOn(o) /= "event_loop"

\* The critical section of an operation runs in this step.
Critical(o) == ops[o].pc = "locked" /\ ops'[o].pc /= "locked"

\* The entries of a list idle for no longer than idle_timeout.
Fresh(entries) ==
    SelectSeq(entries, LAMBDA e : now - e.idle_since <= idle_timeout)

\* C13: reap removes and destroys only entries with
\* now - idle_since > idle_timeout; every entry idle for idle_timeout or
\* less stays in the pool under its key and is not destroyed.
C13_ReapKeepsFresh ==
    [][Critical("reap") =>
          /\ \A k \in Keys : Fresh(pool[k]) = pool'[k]
          /\ \A k \in Keys : \A n \in DOMAIN pool[k] :
                 pool[k][n].container \in ops'["reap"].pending
                     => now - pool[k][n].idle_since > idle_timeout]_vars

\* reap is destroying an expired entry while an entry idle for exactly
\* idle_timeout is still pooled.
C13_Witness ==
    /\ ops["reap"].pc = "removing"
    /\ ops["reap"].pending /= {}
    /\ \E k \in Keys : \E n \in DOMAIN pool[k] :
           /\ now - pool[k][n].idle_since = idle_timeout
           /\ pool[k][n].idle_since < now

\* C14: release on a full pool (total_count >= max_pool_size) evicts
\* exactly one entry, one with the least idle_since of all entries of all
\* keys and the first such in scan order, and never the container being
\* released.
C14_EvictsOldest ==
    [][Critical("release") /\ TotalCount(pool, pool_keys) >= max_pool_size =>
          \E k \in Keys : \E n \in DOMAIN pool[k] :
              /\ ops'["release"].pending = {pool[k][n].container}
              /\ pool[k][n].container /= ops["release"].container
              /\ \A j \in Keys : \A m \in DOMAIN pool[j] :
                     pool[k][n].idle_since <= pool[j][m].idle_since
              /\ pool'[k] = RemoveAt(pool[k], n)
              /\ \A j \in Keys \ {k} : pool'[j] = pool[j]
              /\ Oldest(pool, pool_keys).key = k
              /\ Oldest(pool, pool_keys).idx = n]_vars

\* The handler has matched the request against the routes.
Routed == gw.pc \notin {"idle", "received"} /\ gw.slug_known /\ routes /= <<>>

\* The routes of method m whose pattern matches the path the matcher
\* compared.
Hits(m) ==
    {n \in DOMAIN routes :
        /\ routes[n].method = m
        /\ regex_match(path_pattern_to_regex(routes[n].path), gw.matched_path)}

Least(S) == CHOOSE n \in S : \A m \in S : n <= m

\* C15: the route returned is the first in store order of the request's
\* method whose pattern matches; when there is none, the first of method ANY
\* whose pattern matches; when there is none either, no route.  A route of
\* the exact method wins over an ANY route wherever they are in the store.
C15_ExactMethodFirst ==
    Routed =>
        gw.route = IF Hits(gw.method) /= {} THEN Least(Hits(gw.method))
                   ELSE IF Hits("ANY") /= {} THEN Least(Hits("ANY"))
                   ELSE 0

\* An ANY route stored before a route of the request's method, both
\* matching, and the later one returned.
C15_Witness ==
    /\ Routed
    /\ Hits("ANY") /= {}
    /\ Hits(gw.method) /= {}
    /\ Least(Hits("ANY")) < Least(Hits(gw.method))
    /\ gw.route = Least(Hits(gw.method))

\* C16: the normalized path has a single leading "/" and no trailing "/"
\* unless it is exactly "/"; a path of slashes only normalizes to "/".
C16_Normalized ==
    Routed =>
        LET p == gw.matched_path
        IN  /\ p /= <<>>
            /\ Head(p) = "/"
            /\ Len(p) > 1 => p[2] /= "/" /\ p[Len(p)] /= "/"
            /\ (\A n \in DOMAIN gw.request_path : gw.request_path[n] = "/")
                   => p = <<"/">>

\* The request matches no route of its method or of method ANY.
NoRouteMatches == Hits(gw.method) = {} /\ Hits("ANY") = {}

C18_EventPathNormalized ==
    /\ gw.invoked => gw.event_path = gw.matched_path
    /\ \A n \in DOMAIN invocation_log :
           invocation_log[n].request = gw.n =>
               /\ invocation_log[n].http_path = gw.matched_path
               /\ invocation_log[n].event_path = gw.matched_path

\* C19: every request that reaches the orchestrator gets its invocation
\* record: once invoke has been called, a record of the request with source
\* "gateway" is appended.
C19_RecordAppended ==
    (gw.pc = "invoking") ~>
        (\E n \in DOMAIN invocation_log :
            /\ invocation_log[n].request = gw.n
            /\ invocation_log[n].source = "gateway")

\* The number of lines of a manifest that, stripped, are the line l.
Occurs(requirements_txt, l) ==
    Cardinality({n \in DOMAIN splitlines(requirements_txt) :
                    strip(splitlines(requirements_txt)[n]) = l})

\* Two manifests have the same stripped, non-empty, non-comment lines, each
\* as many times.
StrippedLines(requirements_txt) ==
    {strip(splitlines(requirements_txt)[n]) :
        n \in DOMAIN splitlines(requirements_txt)}

SameDependencies(a, b) ==
    \A l \in StrippedLines(a) \cup StrippedLines(b) :
        l /= <<>> /\ Head(l) /= "#" => Occurs(a, l) = Occurs(b, l)

\* C20: the hash depends only on the multiset of stripped, non-empty,
\* non-comment lines: blanks around a line, blank lines, comment lines and
\* the order of the lines do not change it, and a dependency line added or
\* removed does.
C20_HashOfDependencies ==
    [][SameDependencies(requirements, requirements')
           <=> requirements_hash' = requirements_hash]_vars

\* A manifest with its two dependencies in the other order, one of them
\* indented, has the hash of the sorted lines.
C20_Witness ==
    /\ requirements = <<"r", NL, " ", "f">>
    /\ requirements_hash = <<"f", NL, "r">>

\* C21: a call of execute whose injection failed has returned success=false
\* without raising, has not run the bootstrap and has left the sandbox as it
\* was.
C21_InjectionFailureReturned ==
    execution.put = "raises" =>
        /\ ~execution.raised
        /\ ~execution.success
        /\ ~execution.exec_run
        /\ sandbox = execution.before

\* Every function has a row for its active version.
ActiveVersionExists ==
    \A fn \in FunctionIds :
        functions[fn] /= NoVersion =>
            HasVersion(function_versions, fn, functions[fn])

\* C22: after every create_function, update_function and set_active_version
\* the active version of every function has a row, and a version row keeps
\* its code for ever.
C22_VersionsAppendOnly ==
    [][/\ ActiveVersionExists'
       /\ \A fn \in FunctionIds, v \in Versions :
              HasVersion(function_versions, fn, v) =>
                  function_versions'[fn][v] = function_versions[fn][v]]_vars

\* A function with two versions whose pointer was set back to the first.
C22_Witness ==
    /\ response.op = "set_active_version" /\ response.status = 200
    /\ functions[response.fn] = 1
    /\ HasVersion(function_versions, response.fn, 2)
    /\ function_versions[response.fn][1] /= function_versions[response.fn][2]

\* C30: an update_function with new code on an existing function succeeds:
\* it appends a version under a number not used before and makes it active.
C30_UpdateAppends ==
    response.op = "update_function" /\ response.new_code /= NoCode
        /\ response.status /= 404 =>
            /\ response.status = 200
            /\ ~response.used_before
            /\ response.active_version = response.version
            /\ response.code = response.new_code

\* The tags of the project under update.
ProjectTags == {tag \in images : tag[1] = ProjectId}

KeptTag(b) == get_image_name(ProjectId, builds[b].req_hash)

\* What build_project_image hands back for an image that exists, and what
\* it hands back for a build that failed.
ReturnedCached(b) ==
    builds[b].pc = "returned" /\ builds[b].cached =>
        /\ builds[b].ok /\ builds[b].hash = builds[b].req_hash
        /\ ~builds[b].submitted /\ ~builds[b].listed
        /\ builds[b].attempted = {}

ReturnedFailed(b) ==
    builds[b].pc = "failed" =>
        /\ ~builds[b].ok /\ builds[b].hash = NoHash
        /\ ~builds[b].listed /\ builds[b].attempted = {}

\* C23: build returns (true, image_name, hash) without a build and without
\* pruning when the tag exists; after a successful build the only tag of
\* the project is the new one; a failed build returns (false, error, "")
\* and removes no tag.
C23_BuildPrunesAll ==
    \A b \in Builders :
        /\ ReturnedCached(b)
        /\ builds[b].pc = "returned" /\ ~builds[b].cached =>
               /\ builds[b].ok /\ builds[b].hash = builds[b].req_hash
               /\ ProjectTags = {KeptTag(b)}
        /\ ReturnedFailed(b)

\* C23 as amended: after a successful build removal has been called on
\* every tag of the project other than the new one that the listing gave,
\* and on no other tag; a tag leaves the engine only by such a call; a
\* listing that failed leaves every tag, a removal that failed leaves its
\* tag.
C23_BuildPrunesBestEffort ==
    [][/\ \A b \in Builders :
              /\ ReturnedCached(b)'
              /\ (builds[b].pc = "returned" /\ ~builds[b].cached =>
                      /\ builds[b].ok /\ builds[b].hash = builds[b].req_hash
                      /\ builds[b].submitted
                      /\ builds[b].attempted = builds[b].listing
                      /\ ~builds[b].listed => builds[b].listing = {}
                      /\ \A tag \in builds[b].attempted :
                             tag[1] = ProjectId /\ tag /= KeptTag(b))'
              /\ ReturnedFailed(b)'
       /\ \A tag \in images \ images' :
              \E b \in Builders :
                  /\ tag \in builds[b].to_remove
                  /\ tag \in builds'[b].attempted \ builds'[b].refused]_vars

\* A build has succeeded and pruned, and an older tag that the engine
\* refused to remove is left.
C23_Witness ==
    \E b \in Builders :
        /\ builds[b].pc = "returned" /\ builds[b].submitted /\ builds[b].listed
        /\ builds[b].refused /= {}
        /\ builds[b].refused \subseteq images

\* C29: once every update_requirements call has completed, the image of
\* the stored hash is in the engine, and a call whose build failed leaves
\* the project row as it was.
C29_StoredImageExists ==
    [][/\ BuildersIdle' /\ project'.requirements_hash /= NoHash =>
              get_image_name(ProjectId, project'.requirements_hash) \in images'
       /\ \A b \in Builders :
              builds[b].pc = "failed" /\ builds'[b].pc = "idle" =>
                  project' = project]_vars

\* The handle is in the pool and has been idle for longer than idle_timeout.
IdleExpired(h) ==
    \E k \in Keys : \E n \in DOMAIN pool[k] :
        /\ pool[k][n].container = h
        /\ now - pool[k][n].idle_since > idle_timeout

\* What reap() leaves: no entry older than idle_timeout, no key with an
\* empty list.
Reaped ==
    /\ \A h \in Handles : ~IdleExpired(h)
    /\ \A n \in DOMAIN pool_keys : pool[pool_keys[n]] /= <<>>

\* C24: while the reaper task runs, an entry idle for longer than
\* idle_timeout leaves the pool (reaped, unless it is acquired or evicted
\* first), also after reap() calls that raised; and a reap() leaves no
\* entry older than idle_timeout and no key with an empty list.
C24_ReaperCollects ==
    /\ \A h \in Handles :
           (ReaperRunning /\ IdleExpired(h))
               ~> (h \notin PooledHandles(pool) \/ shutdowns > 0)
    /\ [][RpReap => Reaped']_vars

\* After a reap() that raised, a later reap() has destroyed an entry that
\* had become idle for longer than idle_timeout.
C24_Witness ==
    /\ reaper.errors >= 1
    /\ shutdowns = 0
    /\ \E h \in ever_pooled :
           /\ removes[h] = 1
           /\ h \notin PooledHandles(pool)
           /\ \A i \in Threads : container[i] /= h

\* The output the specification gives a failed run, by the shape of its
\* stdout.
ErrorOutput(out) ==
    CASE out = "json_object_with_error" -> "error field"
      [] out = "empty" -> "Function exited with an error"
      [] OTHER -> "stdout"

\* C25: a bootstrap that exits non-zero makes execute return, not raise, a
\* result with success=false and the error field of a JSON stdout, else
\* the raw stdout, else a generic message, whatever the shape of stdout.
C25_NonZeroExitReturned ==
    execution.exec_run /\ ~execution.exec_raised /\ execution.exit_code /= 0 =>
        /\ ~execution.raised
        /\ ~execution.success
        /\ execution.output = ErrorOutput(execution.stdout)

\* C26: an invocation executes in a container created with the image and
\* the network setting it asked for, and a container is pooled under the
\* key it was created with.
C26_SandboxMatchesRequest ==
    /\ \A i \in Threads :
           pc[i] = "exec" => handle_key[container[i]] = req[i]
    /\ \A k \in Keys : \A n \in DOMAIN pool[k] :
           handle_key[pool[k][n].container] = k

\* A warm invocation without network executes while a container created
\* with network sits in the pool.
C26_Witness ==
    \E i \in Threads :
        /\ pc[i] = "exec" /\ ~cold_start[i]
        /\ req[i] = <<DEFAULT_IMAGE, FALSE>>
        /\ pool[<<DEFAULT_IMAGE, TRUE>>] /= <<>>

\* C27: every container the engine has created is owned by the invocation
\* it was created for, or is in the pool, or has been destroyed: one whose
\* start failed is destroyed by the time its invocation has returned.
C27_CreatedIsDisposed ==
    \A h \in 1 .. created : Owned(h) \/ Pooled(h) \/ Destroyed(h)

\* The containers created and not destroyed, and the invocations in flight.
Live == {h \in 1 .. created : ~Destroyed(h)}
InFlightCount == Cardinality({i \in Threads : InFlight(i)})

\* C28: the number of live containers is at most max_pool_size plus the
\* number of invocations in flight.
C28_LiveBounded == Cardinality(Live) <= max_pool_size + InFlightCount

====
